---- MODULE Spec2Model ----
(***************************************************************************)
(* Model of dd_widgets/timeseries/__init__.py: the label lookup (get_col,  *)
(* load_target), the anomaly policy object (AnomalyParameters: __init__,   *)
(* fit, compute_anomalies) and the evaluator (get_anomaly_results,         *)
(* get_anomaly_score).                                                     *)
(*                                                                         *)
(* Python values are represented as follows.                               *)
(*   list            -> sequence (Python index i is TLA+ index i + 1)      *)
(*   a / b (floats)  -> the exact fraction <<a, b>>, compared with RatEq   *)
(*   None (a model)  -> the record NoneModel, whose id is 0                *)
(*   an exception    -> the field "raised" of the outcome record           *)
(***************************************************************************)
EXTENDS Integers, Sequences, FiniteSets, TLC

VARIABLES
    \* evaluator: AnomalyParameters.get_anomaly_score(pred_anom, targ_anom)
    pred_anom,      \* the predicted indices (argument)
    targ_anom,      \* the ground-truth intervals, pairs <<start, end>> (argument)
    found,          \* local: found[i] for interval i
    fps,            \* local: the unmatched predicted indices
    anom_pos,       \* position of the outer loop in pred_anom (1-based)
    eval_pc,        \* "loop" | "results_done" | "score_done" | "idle"
    counts,         \* what get_anomaly_results returned: [tp, fn, fp]
    score,          \* outcome of get_anomaly_score
    \* label lookup: get_col / load_target
    header,         \* the header row
    col_out,        \* outcome of the last lookup call
    \* the policy object
    self,           \* the AnomalyParameters object (its attributes)
    init_args,      \* the arguments AnomalyParameters.__init__ was called with
    n_objects,      \* number of ErrorNormalizationModel objects constructed so far
    last_call,      \* outcome of the last fit / compute_anomalies call
    \* the fixed threshold: np.where(error_norm > self.threshold)
    thr_signal,     \* the score trace that is thresholded
    thr_results,    \* the calls made so far: method, threshold, flagged indices
    \* the aggregator: concat_all_datafiles, learn_anomalies
    errors,         \* TimeseriesPlot.errors: datafile -> model -> error matrix
    concat_out,     \* outcome of the last concat_all_datafiles call
    learn_call,     \* the last learn_anomalies call, and the one before it
    \* TimeseriesPlot objects
    heap,           \* the AnomalyParameters objects; heap[1] is the default argument
    plots           \* the TimeseriesPlot objects constructed so far

vars == <<pred_anom, targ_anom, found, fps, anom_pos, eval_pc, counts, score,
          header, col_out, self, init_args, n_objects, last_call,
          thr_signal, thr_results, errors, concat_out, learn_call, heap, plots>>

eval_vars == <<pred_anom, targ_anom, found, fps, anom_pos, eval_pc, counts, score>>
col_vars == <<header, col_out>>
policy_vars == <<self, init_args, n_objects, last_call>>
thr_vars == <<thr_signal, thr_results>>
agg_vars == <<errors, concat_out, learn_call>>
plot_vars == <<heap, plots>>

(***************************************************************************)
(* Bounds of the model.                                                    *)
(***************************************************************************)
\* time steps are 0..MaxIdx
MaxIdx == 2
\* longest list of predicted indices
MaxPred == 2
\* longest list of ground-truth intervals
MaxTarg == 2
\* longest header row
MaxHeader == 3
\* longest list of labels looked up by load_target, longest labels list of the policy
MaxLabels == 2
\* number of data files (each with its own error matrix)
NumFiles == 2
\* rows (time steps) of an error matrix
NumRows == 2
\* ErrorNormalizationModel objects constructed in one behaviour
MaxObjects == 3

(***************************************************************************)
(* Helpers: sequences over a set, fractions.                               *)
(***************************************************************************)
SeqsUpTo(S, n) == UNION {[1..k -> S] : k \in 0..n}

Range(s) == {s[i] : i \in DOMAIN s}

\* equality of two fractions <<a, b>>, <<c, d>> with non-zero denominators
RatEq(p, q) == p[1] * q[2] = q[1] * p[2]

(***************************************************************************)
(* Evaluator                                                               *)
(***************************************************************************)
\* start <= anom <= end
Contains(interval, anom) == interval[1] <= anom /\ anom <= interval[2]

\* a variant of the interval search that does not stop at the first match
RECURSIVE InnerLoopNoBreak(_, _, _, _, _)
InnerLoopNoBreak(targ, anom, i, fnd, match) ==
    IF i > Len(targ) THEN [found |-> fnd, match |-> match]
    ELSE IF Contains(targ[i], anom)
         THEN InnerLoopNoBreak(targ, anom, i + 1, [fnd EXCEPT ![i] = TRUE], TRUE)
         ELSE InnerLoopNoBreak(targ, anom, i + 1, fnd, match)

\* a variant of the interval search that skips the intervals already found
RECURSIVE InnerLoopSkipFound(_, _, _, _, _)
InnerLoopSkipFound(targ, anom, i, fnd, match) ==
    IF i > Len(targ) THEN [found |-> fnd, match |-> match]
    ELSE IF Contains(targ[i], anom) /\ ~fnd[i]
         THEN [found |-> [fnd EXCEPT ![i] = TRUE], match |-> TRUE]
         ELSE InnerLoopSkipFound(targ, anom, i + 1, fnd, match)

\* for i in range(len(targ_anom)): if start <= anom <= end: found[i] = True;
\* match = True; break
RECURSIVE InnerLoopFrom(_, _, _, _, _)
InnerLoopFrom(targ, anom, i, fnd, match) ==
    IF i > Len(targ) THEN [found |-> fnd, match |-> match]
    ELSE IF Contains(targ[i], anom)
         THEN [found |-> [fnd EXCEPT ![i] = TRUE], match |-> TRUE]
         ELSE InnerLoopFrom(targ, anom, i + 1, fnd, match)

\* the body of "for anom in pred_anom": match = False, then the interval search
InnerLoop(targ, anom, fnd) == InnerLoopFrom(targ, anom, 1, fnd, FALSE)

\* tp = sum([1 for i in found if i])
CountTrue(fnd) == Cardinality({i \in DOMAIN fnd : fnd[i]})

\* tp, fn, len(fps)
ResultsTuple(fnd, targ, unmatched) ==
    [tp |-> CountTrue(fnd), fn |-> Len(targ) - CountTrue(fnd), fp |-> Len(unmatched)]

\* a variant of the score that returns the two ratios in the other order
GetAnomalyScoreSwapped(c) ==
    IF c.tp + c.fn = 0 \/ c.tp + c.fp = 0
    THEN [raised |-> "ZeroDivisionError", value |-> <<>>]
    ELSE [raised |-> "none", value |-> << <<c.tp, c.tp + c.fp>>, <<c.tp, c.tp + c.fn>> >>]

\* return tp / (tp + fn), tp / (tp + fp): the first division is evaluated first,
\* and int / 0 raises ZeroDivisionError, which nothing catches
GetAnomalyScore(c) ==
    IF c.tp + c.fn = 0 THEN [raised |-> "ZeroDivisionError", value |-> <<>>]
    ELSE IF c.tp + c.fp = 0 THEN [raised |-> "ZeroDivisionError", value |-> <<>>]
    ELSE [raised |-> "none", value |-> << <<c.tp, c.tp + c.fn>>, <<c.tp, c.tp + c.fp>> >>]

NoCounts == [tp |-> 0, fn |-> 0, fp |-> 0]
NoScore == [raised |-> "pending", value |-> <<>>]

\* ground-truth intervals <<start, end>> with start <= end
Intervals == {iv \in (0..MaxIdx) \X (0..MaxIdx) : iv[1] <= iv[2]}

\* the scenarios of the specification's testable properties 5 and 6
ScenarioTarg == << <<10, 20>>, <<50, 60>> >>
ScenarioPred == <<12, 15, 55, 70>>
EmptyScenarioTarg == << <<10, 20>> >>
EmptyScenarioPred == <<>>

EvalInputs ==
    {<<p, t>> : p \in SeqsUpTo(0..MaxIdx, MaxPred), t \in SeqsUpTo(Intervals, MaxTarg)}
        \cup {<<ScenarioPred, ScenarioTarg>>, <<EmptyScenarioPred, EmptyScenarioTarg>>}

\* the state on entry of get_anomaly_score -> get_anomaly_results:
\* found = [False] * len(targ_anom); fps = []
EvalStart(p, t) ==
    /\ pred_anom = p
    /\ targ_anom = t
    /\ found = [i \in 1..Len(t) |-> FALSE]
    /\ fps = <<>>
    /\ anom_pos = 1
    /\ eval_pc = "loop"
    /\ counts = NoCounts
    /\ score = NoScore

EvalIdle ==
    /\ pred_anom = <<>>
    /\ targ_anom = <<>>
    /\ found = <<>>
    /\ fps = <<>>
    /\ anom_pos = 1
    /\ eval_pc = "idle"
    /\ counts = NoCounts
    /\ score = NoScore

\* one iteration of "for anom in pred_anom"
ResultsLoopStep ==
    /\ eval_pc = "loop"
    /\ anom_pos <= Len(pred_anom)
    /\ LET r == InnerLoop(targ_anom, pred_anom[anom_pos], found)
       IN /\ found' = r.found
          /\ fps' = IF r.match THEN fps ELSE Append(fps, pred_anom[anom_pos])
    /\ anom_pos' = anom_pos + 1
    /\ UNCHANGED <<pred_anom, targ_anom, eval_pc, counts, score>>

\* the end of get_anomaly_results: return tp, fn, len(fps)
ResultsReturn ==
    /\ eval_pc = "loop"
    /\ anom_pos > Len(pred_anom)
    /\ counts' = ResultsTuple(found, targ_anom, fps)
    /\ eval_pc' = "results_done"
    /\ UNCHANGED <<pred_anom, targ_anom, found, fps, anom_pos, score>>

\* the rest of get_anomaly_score, on the counts get_anomaly_results returned
ScoreReturn ==
    /\ eval_pc = "results_done"
    /\ score' = GetAnomalyScore(counts)
    /\ eval_pc' = "score_done"
    /\ UNCHANGED <<pred_anom, targ_anom, found, fps, anom_pos, counts>>

(***************************************************************************)
(* Label lookup                                                            *)
(***************************************************************************)
\* column names that occur in headers and label lists
LabelNames == {"a", "A", "b"}

\* a name that differs from another only by case, folded to lower case
Lower(l) == IF l = "A" THEN "a" ELSE l

\* a variant of the lookup that compares the names without regard to case
RECURSIVE GetColIgnoreCase(_, _, _)
GetColIgnoreCase(hdr, l, i) ==
    IF i > Len(hdr) THEN [raised |-> "IndexError", value |-> -1]
    ELSE IF Lower(hdr[i]) = Lower(l) THEN [raised |-> "none", value |-> i - 1]
    ELSE GetColIgnoreCase(hdr, l, i + 1)

\* for i,hl in enumerate(header): if hl == l: return i
\* ... raise IndexError("not found")     (the print before the raise is not modelled)
RECURSIVE GetColFrom(_, _, _)
GetColFrom(hdr, l, i) ==
    IF i > Len(hdr) THEN [raised |-> "IndexError", value |-> -1]
    ELSE IF hdr[i] = l THEN [raised |-> "none", value |-> i - 1]
    ELSE GetColFrom(hdr, l, i + 1)

get_col(hdr, l) == GetColFrom(hdr, l, 1)

\* load_target: for l in labels: col_labels.append(get_col(header,l));
\* the first label that is absent ends the call with get_col's IndexError
RECURSIVE LoadTargetCols(_, _, _, _)
LoadTargetCols(hdr, labels, k, col_labels) ==
    IF k > Len(labels) THEN [raised |-> "none", value |-> col_labels]
    ELSE LET r == get_col(hdr, labels[k])
         IN IF r.raised # "none" THEN [raised |-> r.raised, value |-> col_labels]
            ELSE LoadTargetCols(hdr, labels, k + 1, Append(col_labels, r.value))

NoLookup == [op |-> "none", labels |-> <<>>, raised |-> "none", value |-> <<>>]

ColIdle ==
    /\ header = <<>>
    /\ col_out = NoLookup

\* a call get_col(header, l)
CallGetCol ==
    /\ \E l \in LabelNames :
          LET r == get_col(header, l)
          IN col_out' = [op |-> "get_col", labels |-> <<l>>,
                         raised |-> r.raised, value |-> <<r.value>>]
    /\ UNCHANGED header

\* the column resolution of a call load_target(datafile, labels)
CallLoadTarget ==
    /\ \E labels \in SeqsUpTo(LabelNames, MaxLabels) :
          LET r == LoadTargetCols(header, labels, 1, <<>>)
          IN col_out' = [op |-> "load_target", labels |-> labels,
                         raised |-> r.raised, value |-> r.value]
    /\ UNCHANGED header

(***************************************************************************)
(* Error matrices                                                          *)
(***************************************************************************)
Datafiles == 1..NumFiles

\* the error of file f at time step r for column c: a fixed table of small
\* signed values, different from file to file and from column to column
Cell(f, r, c) == ((f * r + 2 * c) % 5) - 2

\* errors[datafile][model] of a run with n target columns: NumRows x n
ErrorOf(f, n) == [r \in 1..NumRows |-> [c \in 1..n |-> Cell(f, r, c)]]

NumCols(data) == IF Len(data) = 0 THEN 0 ELSE Len(data[1])

\* error[:,col_ids]  (col_ids holds 0-based column indices)
Filter(data, col_ids) ==
    [r \in 1..Len(data) |-> [j \in 1..Len(col_ids) |-> data[r][col_ids[j] + 1]]]

Abs(x) == IF x < 0 THEN -x ELSE x

\* np.absolute(error)
AbsMatrix(data) == [r \in 1..Len(data) |-> [j \in 1..NumCols(data) |-> Abs(data[r][j])]]

\* np.amax(data,axis=0)[j], np.min(data,axis=0)[j]
ColMax(data, j) ==
    CHOOSE v \in {data[r][j] : r \in 1..Len(data)} : \A r \in 1..Len(data) : data[r][j] <= v
ColMin(data, j) ==
    CHOOSE v \in {data[r][j] : r \in 1..Len(data)} : \A r \in 1..Len(data) : v <= data[r][j]

\* eps = 1E-5, as the denominator of the fraction 1 / EpsInv
EpsInv == 100000

\* normalize_error: (data-min_data) / (max_data-min_data+eps), per column;
\* each entry is the exact fraction <<numerator, denominator>>, scaled by EpsInv
normalize_error(data) ==
    [r \in 1..Len(data) |->
        [j \in 1..NumCols(data) |->
            <<(data[r][j] - ColMin(data, j)) * EpsInv,
              (ColMax(data, j) - ColMin(data, j)) * EpsInv + 1>>]]

\* c = self.smooth_factor + 1; conv = [1 / c] * c
Conv(smooth_factor) == [i \in 1..(smooth_factor + 1) |-> <<1, smooth_factor + 1>>]

(***************************************************************************)
(* ErrorNormalizationModel (module anomalies), seen through its calls      *)
(***************************************************************************)
\* the value None of self.err_norm_model
NoneModel == [id |-> 0, fit_error |-> <<>>, fit_conv |-> <<>>, fit_gauss |-> FALSE]

\* "if not err_norm_model": None is false, an ErrorNormalizationModel object is true
Truthy(m) == m.id # 0

\* the value of fit's parameter fit_gauss when the caller does not pass it
FitGaussDefault == FALSE

\* ErrorNormalizationModel() followed by .fit(error, conv, fit_gauss = g): the
\* object number id, holding what it was fitted on and in which mode
ModelFit(id, error, conv, g) ==
    [id |-> id, fit_error |-> error, fit_conv |-> conv, fit_gauss |-> g]

\* a call into the module anomalies, with its arguments: model is the object
\* a method is called on, error a raw matrix, norm a normalized one
AnoCall(fn, model, error, norm, conv, args) ==
    [fn |-> fn, model |-> model, error |-> error, norm |-> norm, conv |-> conv, args |-> args]

(***************************************************************************)
(* AnomalyParameters                                                       *)
(***************************************************************************)
\* available_methods()
AvailableMethods == <<"threshold_norm", "threshold", "peaks", "votes", "gaussian">>

\* the defaults of __init__'s parameters threshold and n_anomalies
DefaultThreshold == 3
DefaultNAnomalies == 40
\* self.peak_width = 10
PeakWidthSet == 10

\* AnomalyParameters.__init__
AnomalyParametersInit(method, smooth_factor, threshold, n_anomalies, peaks_width, ignore) ==
    [method |-> method,
     smooth_factor |-> smooth_factor,
     labels |-> <<>>,
     ignore |-> ignore,
     threshold |-> threshold,
     n_anomalies |-> n_anomalies,
     peak_width |-> PeakWidthSet,
     err_norm_model |-> NoneModel]

\* TimeseriesPlot.__init__: self.anomaly_params = anomaly_params;
\* self.anomaly_params.labels = self.target_cols
PlotInit(anomaly_params, target_cols) == [anomaly_params EXCEPT !.labels = target_cols]

\* for lbl in self.labels: if lbl not in self.ignore:
\*     col_ids.append(get_col(self.labels,lbl))
RECURSIVE ColIdsFrom(_, _, _, _)
ColIdsFrom(labels, ignore, k, col_ids) ==
    IF k > Len(labels) THEN col_ids
    ELSE IF labels[k] \notin Range(ignore)
         THEN ColIdsFrom(labels, ignore, k + 1, Append(col_ids, get_col(labels, labels[k]).value))
         ELSE ColIdsFrom(labels, ignore, k + 1, col_ids)

ColIds(labels, ignore) == ColIdsFrom(labels, ignore, 1, <<>>)

\* the result of a call on the policy object: the exception raised ("none" when
\* it returns), the message of the exception, the object after the call, the
\* number of ErrorNormalizationModel objects it constructed, the calls it made
\* into the module anomalies, and where each returned value comes from
NoMsg == [method |-> "", available |-> <<>>]
NoRet == [anomalies |-> "unset", ano_signal |-> "unset", ano_peaks |-> "unset"]

\* AnomalyParameters.fit(error)
FitOn(obj, error_in, next_id) ==
    LET conv == Conv(obj.smooth_factor)
        col_ids == ColIds(obj.labels, obj.ignore)
        error == Filter(error_in, col_ids)
        err_norm_model == ModelFit(next_id, error, conv, FitGaussDefault)
    IN [raised |-> "none", msg |-> NoMsg,
        self |-> [obj EXCEPT !.err_norm_model = err_norm_model],
        constructed |-> 1,
        calls |-> <<AnoCall("fit", err_norm_model, error, <<>>, conv, <<>>)>>,
        ret |-> NoRet]

\* a variant of the dispatch without the branch for "votes"
BranchNoVotes(method) ==
    IF method = "threshold_norm" THEN "threshold_norm"
    ELSE IF method = "gaussian" THEN "gaussian"
    ELSE IF method = "peaks" THEN "peaks"
    ELSE IF method = "threshold" THEN "threshold"
    ELSE "else"

\* the chain if self.method == "threshold_norm": ... elif ... else: the branch taken
Branch(method) ==
    IF method = "threshold_norm" THEN "threshold_norm"
    ELSE IF method = "gaussian" THEN "gaussian"
    ELSE IF method = "peaks" THEN "peaks"
    ELSE IF method = "votes" THEN "votes"
    ELSE IF method = "threshold" THEN "threshold"
    ELSE "else"

RetOf(anomalies, ano_signal, ano_peaks) ==
    [anomalies |-> anomalies, ano_signal |-> ano_signal, ano_peaks |-> ano_peaks]

\* a variant of the model branches without the test "if not err_norm_model":
\* the stored value is queried as it is, and None has no method anomaly_dates
ModelBranchNoFallback(obj, error, conv, fit_gauss, next_id) ==
    LET stored == obj.err_norm_model
    IN IF Truthy(stored)
       THEN [raised |-> "none", msg |-> NoMsg, self |-> obj, constructed |-> 0,
             calls |-> <<AnoCall("anomaly_dates", stored, error, <<>>, conv, <<obj.threshold>>)>>,
             ret |-> RetOf("anomaly_dates", "anomaly_dates", "anomaly_dates")]
       ELSE [raised |-> "AttributeError", msg |-> NoMsg, self |-> obj, constructed |-> 0,
             calls |-> <<>>, ret |-> NoRet]

\* a variant of the model branches that keeps the model fitted on the query
\* in self.err_norm_model
ModelBranchCaching(obj, error, conv, fit_gauss, next_id) ==
    LET stored == obj.err_norm_model
        fresh == ~Truthy(stored)
        model == IF fresh THEN ModelFit(next_id, error, conv, fit_gauss) ELSE stored
    IN [raised |-> "none", msg |-> NoMsg,
        self |-> [obj EXCEPT !.err_norm_model = model],
        constructed |-> IF fresh THEN 1 ELSE 0,
        calls |-> (IF fresh THEN <<AnoCall("fit", model, error, <<>>, conv, <<>>)>> ELSE <<>>)
                  \o <<AnoCall("anomaly_dates", model, error, <<>>, conv, <<obj.threshold>>)>>,
        ret |-> RetOf("anomaly_dates", "anomaly_dates", "anomaly_dates")]

\* a variant of the model branches that hands the absolute value of the
\* filtered matrix to the model
ModelBranchAbs(obj, error, conv, fit_gauss, next_id) ==
    LET stored == obj.err_norm_model
        fresh == ~Truthy(stored)
        model == IF fresh THEN ModelFit(next_id, AbsMatrix(error), conv, fit_gauss) ELSE stored
    IN [raised |-> "none", msg |-> NoMsg, self |-> obj,
        constructed |-> IF fresh THEN 1 ELSE 0,
        calls |-> (IF fresh THEN <<AnoCall("fit", model, AbsMatrix(error), <<>>, conv, <<>>)>>
                   ELSE <<>>)
                  \o <<AnoCall("anomaly_dates", model, AbsMatrix(error), <<>>, conv,
                               <<obj.threshold>>)>>,
        ret |-> RetOf("anomaly_dates", "anomaly_dates", "anomaly_dates")]

\* the branches "threshold_norm" and "gaussian", which differ in fit_gauss only:
\*   model = self.err_norm_model
\*   if not model: model = ano.ErrorNormalizationModel(); model.fit(error, conv, ...)
\*   anomalies, ano_signal, ano_peaks = model.anomaly_dates(error, self.threshold, conv, ...)
ModelBranch(obj, error, conv, fit_gauss, next_id) ==
    LET stored == obj.err_norm_model
        fresh == ~Truthy(stored)
        model == IF fresh THEN ModelFit(next_id, error, conv, fit_gauss) ELSE stored
    IN [raised |-> "none", msg |-> NoMsg, self |-> obj,
        constructed |-> IF fresh THEN 1 ELSE 0,
        calls |-> (IF fresh THEN <<AnoCall("fit", model, error, <<>>, conv, <<>>)>> ELSE <<>>)
                  \o <<AnoCall("anomaly_dates", model, error, <<>>, conv, <<obj.threshold>>)>>,
        ret |-> RetOf("anomaly_dates", "anomaly_dates", "anomaly_dates")]

\* a variant of the threshold branch that leaves ano_signal as it was set at
\* the start
ThresholdRetNoSignal == RetOf("np.where", "None", "None")

\* what the threshold branch returns: anomalies = np.where(...)[0],
\* ano_signal = error_norm = ano.sum_conv_error(error_norm, conv) / len(col_ids),
\* ano_peaks = None as set at the start
ThresholdRet == RetOf("np.where", "sum_conv_error / len(col_ids)", "None")

\* AnomalyParameters.compute_anomalies(error)
ComputeAnomaliesOn(obj, error_in, next_id) ==
    LET conv == Conv(obj.smooth_factor)
        col_ids == ColIds(obj.labels, obj.ignore)
        error == Filter(error_in, col_ids)
        error_norm == normalize_error(AbsMatrix(error))
        branch == Branch(obj.method)
    IN CASE branch = "threshold_norm" ->
              ModelBranch(obj, error, conv, FitGaussDefault, next_id)
         [] branch = "gaussian" ->
              ModelBranch(obj, error, conv, TRUE, next_id)
         [] branch = "peaks" ->
              [raised |-> "none", msg |-> NoMsg, self |-> obj, constructed |-> 0,
               calls |-> <<AnoCall("anomaly_dates_peaks", NoneModel, <<>>, error_norm, conv,
                                   <<obj.n_anomalies, obj.peak_width>>)>>,
               ret |-> RetOf("anomaly_dates_peaks", "anomaly_dates_peaks", "anomaly_dates_peaks")]
         [] branch = "votes" ->
              [raised |-> "none", msg |-> NoMsg, self |-> obj, constructed |-> 0,
               calls |-> <<AnoCall("error_vote", NoneModel, <<>>, error_norm, conv,
                                   <<obj.n_anomalies>>),
                           AnoCall("anomaly_dates_votes", NoneModel, <<>>, <<>>, <<>>,
                                   <<obj.n_anomalies>>)>>,
               ret |-> RetOf("anomaly_dates_votes", "error_vote", "None")]
         [] branch = "threshold" ->
              [raised |-> "none", msg |-> NoMsg, self |-> obj, constructed |-> 0,
               calls |-> <<AnoCall("sum_conv_error", NoneModel, <<>>, error_norm, conv, <<>>)>>,
               ret |-> ThresholdRet]
         [] OTHER ->
              [raised |-> "ValueError",
               msg |-> [method |-> obj.method, available |-> AvailableMethods],
               self |-> obj, constructed |-> 0, calls |-> <<>>, ret |-> NoRet]

NoCall == [op |-> "none", file |-> 0, raised |-> "none", msg |-> NoMsg,
           calls |-> <<>>, ret |-> NoRet]

CallRecord(op, f, r) ==
    [op |-> op, file |-> f, raised |-> r.raised, msg |-> r.msg, calls |-> r.calls, ret |-> r.ret]

\* the values of the method parameter tried: the supported ones and two others
Methods == Range(AvailableMethods) \cup {"zscore", "Threshold"}
SmoothFactors == {0, 1}
PeaksWidths == {5, 10}
PolicyLabels == {"a", "b"}
Ignores == {<<>>, <<"a">>}

\* the target columns of the owning TimeseriesPlot: labels are set (not empty)
\* before fit or compute_anomalies is called
TargetCols == SeqsUpTo(PolicyLabels, MaxLabels) \ {<<>>}

\* an AnomalyParameters built with defaults for threshold and n_anomalies and
\* handed to a TimeseriesPlot with the given target columns; no call made yet
PolicyStart(method, smooth_factor, peaks_width, ignore, target_cols) ==
    /\ self = PlotInit(AnomalyParametersInit(method, smooth_factor, DefaultThreshold,
                                             DefaultNAnomalies, peaks_width, ignore),
                       target_cols)
    /\ init_args = [method |-> method, smooth_factor |-> smooth_factor,
                    threshold |-> DefaultThreshold, n_anomalies |-> DefaultNAnomalies,
                    peaks_width |-> peaks_width, ignore |-> ignore]
    /\ n_objects = 0
    /\ last_call = NoCall

\* an AnomalyParameters on which no method is called
PolicyIdle == PolicyStart("threshold_norm", 0, PeakWidthSet, <<>>, <<>>)

\* learn_anomalies -> self.anomaly_params.fit(error)
Fit ==
    /\ n_objects < MaxObjects
    /\ \E f \in Datafiles :
          LET r == FitOn(self, ErrorOf(f, Len(self.labels)), n_objects + 1)
          IN /\ self' = r.self
             /\ n_objects' = n_objects + r.constructed
             /\ last_call' = CallRecord("fit", f, r)
    /\ UNCHANGED init_args

\* self.anomaly_params.compute_anomalies(error[i])
ComputeAnomalies ==
    \E f \in Datafiles :
        LET r == ComputeAnomaliesOn(self, ErrorOf(f, Len(self.labels)), n_objects + 1)
        IN /\ n_objects + r.constructed <= MaxObjects
           /\ self' = r.self
           /\ n_objects' = n_objects + r.constructed
           /\ last_call' = CallRecord("compute_anomalies", f, r)
           /\ UNCHANGED init_args

(***************************************************************************)
(* The fixed threshold on a score trace                                    *)
(***************************************************************************)
\* largest value of a score trace (values are 0..MaxSignal)
MaxSignal == 3

\* the thresholds tried
Thresholds == {0, 1, DefaultThreshold}

\* a variant of the selection with the comparison turned round
RECURSIVE WhereLess(_, _, _)
WhereLess(signal, threshold, i) ==
    IF i > Len(signal) THEN <<>>
    ELSE (IF signal[i] < threshold THEN <<i - 1>> ELSE <<>>)
         \o WhereLess(signal, threshold, i + 1)

\* np.where(error_norm > self.threshold)[0]: the 0-based positions, ascending,
\* of the entries above the threshold, from position i on
RECURSIVE WhereGreater(_, _, _)
WhereGreater(signal, threshold, i) ==
    IF i > Len(signal) THEN <<>>
    ELSE (IF signal[i] > threshold THEN <<i - 1>> ELSE <<>>)
         \o WhereGreater(signal, threshold, i + 1)

\* ErrorNormalizationModel.anomaly_dates: the time steps whose aggregate score
\* exceeds the threshold
RECURSIVE AnomalyDatesFlagged(_, _, _)
AnomalyDatesFlagged(signal, threshold, i) ==
    IF i > Len(signal) THEN <<>>
    ELSE (IF signal[i] > threshold THEN <<i - 1>> ELSE <<>>)
         \o AnomalyDatesFlagged(signal, threshold, i + 1)

ThrIdle ==
    /\ thr_signal = <<>>
    /\ thr_results = {}

\* the branch "threshold" of compute_anomalies on the trace thr_signal, which
\* is ano.sum_conv_error(error_norm, conv) / len(col_ids) and does not depend
\* on the threshold
CallThreshold ==
    /\ \E t \in Thresholds :
          thr_results' = thr_results \cup
              {[method |-> "threshold", threshold |-> t,
                anomalies |-> WhereGreater(thr_signal, t, 1)]}
    /\ UNCHANGED thr_signal

\* the branch "threshold_norm" of compute_anomalies on a fixed model and error
\* matrix, whose aggregate score is thr_signal
CallThresholdNorm ==
    /\ \E t \in Thresholds :
          thr_results' = thr_results \cup
              {[method |-> "threshold_norm", threshold |-> t,
                anomalies |-> AnomalyDatesFlagged(thr_signal, t, 1)]}
    /\ UNCHANGED thr_signal

(***************************************************************************)
(* The aggregator: concat_all_datafiles and learn_anomalies                *)
(***************************************************************************)
\* longest list of datafiles handed to concat_all_datafiles
MaxListed == 3

\* model.sname of the models whose errors are kept
ModelNames == {"lstm", "nbeats"}

ModelNo(model) == IF model = "lstm" THEN 0 ELSE 1

\* the target columns of the TimeseriesPlot whose errors are aggregated
LearnCols == <<"a", "b">>

\* the number of time steps of a datafile
RowsOf(f) == IF f % 2 = 1 THEN NumRows ELSE NumRows - 1

\* self.errors[datafile][model]: RowsOf(datafile) x Len(LearnCols)
FileError(f, model) ==
    [r \in 1..RowsOf(f) |-> [c \in 1..Len(LearnCols) |-> Cell(f, r + ModelNo(model), c)]]

\* self.errors: every datafile has the errors of some models, at least one
ErrorTables ==
    { [f \in Datafiles |-> [model \in ms[f] |-> FileError(f, model)]] :
        ms \in [Datafiles -> (SUBSET ModelNames) \ {{}}] }

\* a variant of the stacking that puts the new rows first
ConcatStepReversed(result_m, error_m) == error_m \o result_m

\* a variant of the stacking that keeps the rows of the last file only
ConcatStepOverwrite(result_m, error_m) == error_m

\* np.concatenate((result[model], error[model]), axis = 0)
ConcatStep(result_m, error_m) == result_m \o error_m

\* for datafile in datafiles: the loop from the k-th listed file on
RECURSIVE ConcatFrom(_, _, _, _)
ConcatFrom(errs, datafiles, k, result) ==
    IF k > Len(datafiles) THEN result
    ELSE LET error == errs[datafiles[k]]
             next == [model \in (DOMAIN result) \cup (DOMAIN error) |->
                         IF model \notin DOMAIN error THEN result[model]
                         ELSE IF model \notin DOMAIN result THEN error[model]
                         ELSE ConcatStep(result[model], error[model])]
         IN ConcatFrom(errs, datafiles, k + 1, next)

\* concat_all_datafiles(errors, datafiles): result = {} and the loop
concat_all_datafiles(errs, datafiles) == ConcatFrom(errs, datafiles, 1, <<>>)

NoConcat == [op |-> "none", datafiles |-> <<>>, result |-> <<>>]

NoLearn == [op |-> "none", model |-> "", datafiles |-> <<>>, raised |-> "none",
            prev |-> <<>>]

AggIdle ==
    /\ errors = <<>>
    /\ concat_out = NoConcat
    /\ learn_call = NoLearn

\* a call of concat_all_datafiles(self.errors, datafiles)
CallConcat ==
    /\ \E datafiles \in SeqsUpTo(Datafiles, MaxListed) :
          concat_out' = [op |-> "concat_all_datafiles", datafiles |-> datafiles,
                         result |-> concat_all_datafiles(errors, datafiles)]
    /\ UNCHANGED <<errors, learn_call>>

\* the lists of datafiles learn_anomalies is called with: none, one or two files
LearnLists ==
    {<<>>} \cup {<<f>> : f \in Datafiles} \cup {<<f, g>> : f \in Datafiles, g \in Datafiles}

\* smooth_factor of the AnomalyParameters that learns
LearnSmoothFactors == {0, 1, 2}

\* self.errors of a TimeseriesPlot on which learn_anomalies is called: the last
\* datafile was predicted by one model only
LearnErrorTables ==
    {t \in ErrorTables :
        \A f \in Datafiles :
            DOMAIN t[f] = IF f = NumFiles THEN {"lstm"} ELSE ModelNames}

\* learn_anomalies(model, datafiles): error[model.sname] raises KeyError when
\* no listed file has errors of the model
LearnAnomalies ==
    \E model \in ModelNames, datafiles \in LearnLists :
        LET error == concat_all_datafiles(errors, datafiles)
            call(raised) ==
                [op |-> "learn_anomalies", model |-> model, datafiles |-> datafiles,
                 raised |-> raised,
                 prev |-> IF learn_call.op = "none" THEN <<>>
                          ELSE <<[model |-> learn_call.model,
                                  datafiles |-> learn_call.datafiles,
                                  raised |-> learn_call.raised]>>]
        IN IF model \in DOMAIN error
           THEN /\ n_objects < MaxObjects
                /\ LET r == FitOn(self, error[model], n_objects + 1)
                   IN /\ self' = r.self
                      /\ n_objects' = n_objects + r.constructed
                      /\ last_call' = CallRecord("fit", 0, r)
                /\ learn_call' = call("none")
                /\ UNCHANGED <<init_args, errors, concat_out>>
           ELSE /\ learn_call' = call("KeyError")
                /\ UNCHANGED <<policy_vars, errors, concat_out>>

\* x[lo] + ... + x[hi]
RECURSIVE SumRange(_, _, _)
SumRange(x, lo, hi) == IF lo > hi THEN 0 ELSE x[lo] + SumRange(x, lo + 1, hi)

Max2(a, b) == IF a >= b THEN a ELSE b
Min2(a, b) == IF a <= b THEN a ELSE b

\* the absolute values of column j of a matrix
AbsCol(data, j) == [r \in 1..Len(data) |-> Abs(data[r][j])]

\* smooth(signal, window) times window: the "same"-mode convolution with a
\* uniform kernel, edge samples using the available overlap
SmoothedTimes(x, window) ==
    LET off == (window - 1) \div 2
    IN [i \in 1..Len(x) |->
            SumRange(x, Max2(1, i + off - window + 1), Min2(Len(x), i + off))]

\* mean and variance (the square of the standard deviation) of the smoothed
\* trace, as fractions
TraceStats(x, window) ==
    LET s == SmoothedTimes(x, window)
        n == Len(x)
        sum == SumRange(s, 1, n)
        sumsq == SumRange([i \in 1..n |-> s[i] * s[i]], 1, n)
    IN [mean |-> <<sum, window * n>>,
        var |-> <<n * sumsq - sum * sum, window * window * n * n>>]

\* the per-feature statistics ErrorNormalizationModel.fit stores
FittedStats(m) ==
    [j \in 1..NumCols(m.fit_error) |-> TraceStats(AbsCol(m.fit_error, j), Len(m.fit_conv))]

(***************************************************************************)
(* TimeseriesPlot objects and their AnomalyParameters                      *)
(***************************************************************************)
\* largest number of TimeseriesPlot objects constructed
MaxPlots == 2

\* the defaults of __init__'s parameters smooth_factor and peaks_width
DefaultSmoothFactor == 20
DefaultPeaksWidth == 10

\* AnomalyParameters(): all parameters at their defaults
AnomalyParametersDefault ==
    AnomalyParametersInit("threshold_norm", DefaultSmoothFactor, DefaultThreshold,
                          DefaultNAnomalies, DefaultPeaksWidth, <<>>)

\* the reference held by the parameter anomaly_params when the caller passes
\* nothing: the one object built when the def statement was executed
DefaultRef == 1

PlotIdle ==
    /\ heap = <<>>
    /\ plots = <<>>

\* TimeseriesPlot(target_cols = ..., [anomaly_params = AnomalyParameters()]):
\* passed says whether the caller passes a new AnomalyParameters of its own;
\* self.anomaly_params = anomaly_params; self.anomaly_params.labels = self.target_cols
NewPlotOn(target_cols, passed, objs) ==
    LET ref == IF passed THEN Len(objs) + 1 ELSE DefaultRef
        held == IF passed THEN Append(objs, AnomalyParametersDefault) ELSE objs
    IN [heap |-> [held EXCEPT ![ref] = PlotInit(held[ref], target_cols)],
        plot |-> [target_cols |-> target_cols, anomaly_params |-> ref]]

\* the construction of one more TimeseriesPlot
NewPlot ==
    /\ Len(plots) < MaxPlots
    /\ \E target_cols \in SeqsUpTo(PolicyLabels, MaxLabels), passed \in BOOLEAN :
          LET r == NewPlotOn(target_cols, passed, heap)
          IN /\ heap' = r.heap
             /\ plots' = Append(plots, r.plot)

(***************************************************************************)
(* Specifications                                                          *)
(***************************************************************************)
\* the policy object: any sequence of fit and compute_anomalies calls
Init ==
    /\ EvalIdle
    /\ ColIdle
    /\ ThrIdle
    /\ AggIdle
    /\ PlotIdle
    /\ \E method \in Methods, smooth_factor \in SmoothFactors, peaks_width \in PeaksWidths,
          ignore \in Ignores, target_cols \in TargetCols :
          PolicyStart(method, smooth_factor, peaks_width, ignore, target_cols)

Next ==
    \/ Fit /\ UNCHANGED <<eval_vars, col_vars, thr_vars, agg_vars, plot_vars>>
    \/ ComputeAnomalies /\ UNCHANGED <<eval_vars, col_vars, thr_vars, agg_vars, plot_vars>>

Spec == Init /\ [][Next]_vars

\* the evaluator: one call of get_anomaly_score on every pair of arguments
InitEval ==
    /\ ColIdle
    /\ PolicyIdle
    /\ ThrIdle
    /\ AggIdle
    /\ PlotIdle
    /\ \E in \in EvalInputs : EvalStart(in[1], in[2])

NextEval ==
    \/ ResultsLoopStep /\ UNCHANGED <<col_vars, policy_vars, thr_vars, agg_vars, plot_vars>>
    \/ ResultsReturn /\ UNCHANGED <<col_vars, policy_vars, thr_vars, agg_vars, plot_vars>>
    \/ ScoreReturn /\ UNCHANGED <<col_vars, policy_vars, thr_vars, agg_vars, plot_vars>>

SpecEval == InitEval /\ [][NextEval]_vars

\* the label lookup: calls of get_col and load_target on every header
InitCol ==
    /\ EvalIdle
    /\ PolicyIdle
    /\ ThrIdle
    /\ AggIdle
    /\ PlotIdle
    /\ header \in SeqsUpTo(LabelNames, MaxHeader)
    /\ col_out = NoLookup

NextCol ==
    \/ CallGetCol /\ UNCHANGED <<eval_vars, policy_vars, thr_vars, agg_vars, plot_vars>>
    \/ CallLoadTarget /\ UNCHANGED <<eval_vars, policy_vars, thr_vars, agg_vars, plot_vars>>

SpecCol == InitCol /\ [][NextCol]_vars

\* the fixed threshold: calls with every threshold on every score trace
InitThr ==
    /\ EvalIdle
    /\ ColIdle
    /\ PolicyIdle
    /\ AggIdle
    /\ PlotIdle
    /\ thr_signal \in [1..NumRows -> 0..MaxSignal]
    /\ thr_results = {}

NextThr ==
    \/ CallThreshold /\ UNCHANGED <<eval_vars, col_vars, policy_vars, agg_vars, plot_vars>>
    \/ CallThresholdNorm /\ UNCHANGED <<eval_vars, col_vars, policy_vars, agg_vars, plot_vars>>

SpecThr == InitThr /\ [][NextThr]_vars

\* the aggregator: concat_all_datafiles on every table of errors
InitConcat ==
    /\ EvalIdle
    /\ ColIdle
    /\ PolicyIdle
    /\ ThrIdle
    /\ PlotIdle
    /\ errors \in ErrorTables
    /\ concat_out = NoConcat
    /\ learn_call = NoLearn

NextConcat ==
    \/ CallConcat /\ UNCHANGED <<eval_vars, col_vars, policy_vars, thr_vars, plot_vars>>

SpecConcat == InitConcat /\ [][NextConcat]_vars

\* learn_anomalies on a TimeseriesPlot with the columns LearnCols
InitLearn ==
    /\ EvalIdle
    /\ ColIdle
    /\ ThrIdle
    /\ PlotIdle
    /\ errors \in LearnErrorTables
    /\ concat_out = NoConcat
    /\ learn_call = NoLearn
    /\ \E smooth_factor \in LearnSmoothFactors, ignore \in Ignores :
          PolicyStart("threshold_norm", smooth_factor, PeakWidthSet, ignore, LearnCols)

NextLearn ==
    \/ LearnAnomalies /\ UNCHANGED <<eval_vars, col_vars, thr_vars, plot_vars>>

SpecLearn == InitLearn /\ [][NextLearn]_vars

\* TimeseriesPlot objects constructed one after the other
InitPlots ==
    /\ EvalIdle
    /\ ColIdle
    /\ PolicyIdle
    /\ ThrIdle
    /\ AggIdle
    /\ heap = <<AnomalyParametersDefault>>
    /\ plots = <<>>

NextPlots ==
    \/ NewPlot /\ UNCHANGED <<eval_vars, col_vars, policy_vars, thr_vars, agg_vars>>

SpecPlots == InitPlots /\ [][NextPlots]_vars




(***************************************************************************)
(* Properties of the evaluator (checked under SpecEval)                    *)
(***************************************************************************)
ResultsDone == eval_pc \in {"results_done", "score_done"}

\* the intervals that hold at least one of the predicted indices
IntervalsHit == {i \in 1..Len(targ_anom) :
                    \E k \in 1..Len(pred_anom) : Contains(targ_anom[i], pred_anom[k])}

\* the positions of the predicted entries that lie in no interval
EntriesOutside == {k \in 1..Len(pred_anom) :
                      \A i \in 1..Len(targ_anom) : ~Contains(targ_anom[i], pred_anom[k])}

SetMin(S) == CHOOSE m \in S : \A x \in S : m <= x

\* the outer loop is about to process pred_anom[anom_pos]
AtEntry == eval_pc = "loop" /\ anom_pos <= Len(pred_anom)

\* C1: an interval is found iff at least one predicted index lies in
\* [start, end]; true_positive is the number of such intervals and
\* false_negative is the number of intervals minus true_positive.
C1_FoundIffIndexInside ==
    ResultsDone =>
        /\ \A i \in 1..Len(targ_anom) : found[i] <=> i \in IntervalsHit
        /\ counts.tp = Cardinality(IntervalsHit)
        /\ counts.fn = Len(targ_anom) - Cardinality(IntervalsHit)

C5_ZeroDenominatorDefined ==
    (eval_pc = "score_done" /\ (counts.tp + counts.fn = 0 \/ counts.tp + counts.fp = 0))
        => score.raised # "ZeroDivisionError"

(***************************************************************************)
(* Properties of the label lookup (checked under SpecCol)                  *)
(***************************************************************************)
\* C7: get_col returns an index i with header[i] = l, compared exactly,
\* whenever l occurs in the header, and raises IndexError whenever it does
\* not; load_target resolves every label so, and ends in that IndexError as
\* soon as one label is absent.
C7_ExactLookup ==
    /\ col_out.op = "get_col" =>
          LET l == col_out.labels[1]
          IN /\ l \in Range(header) =>
                   /\ col_out.raised = "none"
                   /\ col_out.value[1] \in 0..(Len(header) - 1)
                   /\ header[col_out.value[1] + 1] = l
             /\ l \notin Range(header) => col_out.raised = "IndexError"
    /\ col_out.op = "load_target" =>
          /\ Range(col_out.labels) \subseteq Range(header) =>
                /\ col_out.raised = "none"
                /\ Len(col_out.value) = Len(col_out.labels)
                /\ \A k \in 1..Len(col_out.labels) :
                      /\ col_out.value[k] \in 0..(Len(header) - 1)
                      /\ header[col_out.value[k] + 1] = col_out.labels[k]
          /\ ~(Range(col_out.labels) \subseteq Range(header)) =>
                col_out.raised = "IndexError"

\* a label was looked up in a header that holds it only in the other case
C7_Witness ==
    /\ col_out.op = "get_col"
    /\ col_out.labels = <<"A">>
    /\ "a" \in Range(header)
    /\ "A" \notin Range(header)
    /\ col_out.raised = "IndexError"

(***************************************************************************)
(* Properties of the policy object (checked under Spec)                    *)
(***************************************************************************)
Computed == last_call.op = "compute_anomalies"

ModelMethods == {"threshold_norm", "gaussian"}

\* the step is a call of compute_anomalies / of fit
ComputeStep == vars' # vars /\ last_call'.op = "compute_anomalies"
FitStep == vars' # vars /\ last_call'.op = "fit"

\* the matrix compute_anomalies and fit keep of the file's error matrix
FilteredError(f) == Filter(ErrorOf(f, Len(self.labels)), ColIds(self.labels, self.ignore))

\* C6: with a method outside the five supported names compute_anomalies raises
\* ValueError with the offending value and the list available_methods()
\* returns, returns nothing and leaves the stored model as it was; with a
\* method of that list it does not raise ValueError.
C6_UnknownMethod ==
    /\ [](Computed =>
            /\ Range(AvailableMethods) =
                  {"threshold_norm", "threshold", "peaks", "votes", "gaussian"}
            /\ self.method \notin {"threshold_norm", "threshold", "peaks", "votes", "gaussian"} =>
                  /\ last_call.raised = "ValueError"
                  /\ last_call.msg = [method |-> self.method, available |-> AvailableMethods]
                  /\ last_call.ret = NoRet
                  /\ last_call.calls = <<>>
            /\ self.method \in Range(AvailableMethods) =>
                  /\ last_call.raised # "ValueError"
                  /\ last_call.ret # NoRet)
    /\ [][(ComputeStep /\ last_call'.raised = "ValueError") => self' = self]_vars

\* compute_anomalies raised ValueError on an object that holds a fitted model
C6_Witness ==
    /\ Computed
    /\ last_call.raised = "ValueError"
    /\ self.method = "zscore"
    /\ Truthy(self.err_norm_model)

\* C8: with no stored model and method threshold_norm or gaussian,
\* compute_anomalies does not fail: it constructs a model, fits it on the
\* filtered error matrix and queries that model with the same matrix.
C8_FitOnQuery ==
    (Computed /\ ~Truthy(self.err_norm_model) /\ self.method \in ModelMethods) =>
        /\ last_call.raised = "none"
        /\ Len(last_call.calls) = 2
        /\ LET fit == last_call.calls[1]
               query == last_call.calls[2]
           IN /\ fit.fn = "fit"
              /\ query.fn = "anomaly_dates"
              /\ fit.model.id = n_objects
              /\ fit.model.fit_error = FilteredError(last_call.file)
              /\ fit.model.fit_conv = Conv(self.smooth_factor)
              /\ fit.error = FilteredError(last_call.file)
              /\ query.model = fit.model
              /\ query.error = fit.error

\* a model was fitted on the query, on a matrix that lost a column
C8_Witness ==
    /\ Computed
    /\ ~Truthy(self.err_norm_model)
    /\ self.method = "gaussian"
    /\ Len(last_call.calls) = 2
    /\ last_call.calls[1].fn = "fit"
    /\ NumCols(last_call.calls[1].error) >= 1
    /\ NumCols(last_call.calls[1].error) < Len(self.labels)

\* C9: the stored model changes only in fit, which replaces it with a newly
\* constructed model fitted on the filtered matrix; compute_anomalies leaves
\* it as it was, and with a stored model the methods that use a model query
\* the stored one.
C9_ModelOnlyChangesInFit ==
    /\ [][self'.err_norm_model # self.err_norm_model => FitStep]_vars
    /\ [][ComputeStep => self' = self]_vars
    /\ [][FitStep =>
            /\ self'.err_norm_model.id = n_objects + 1
            /\ self'.err_norm_model.id # self.err_norm_model.id
            /\ self'.err_norm_model.fit_error =
                  Filter(ErrorOf(last_call'.file, Len(self.labels)),
                         ColIds(self.labels, self.ignore))]_vars
    /\ [](self.err_norm_model.id <= n_objects)
    /\ []((Computed /\ Truthy(self.err_norm_model) /\ self.method \in ModelMethods) =>
            /\ Len(last_call.calls) = 1
            /\ last_call.calls[1].fn = "anomaly_dates"
            /\ last_call.calls[1].model = self.err_norm_model)

\* after a second fit, compute_anomalies queried the stored model
C9_Witness ==
    /\ Computed
    /\ self.method \in ModelMethods
    /\ self.err_norm_model.id >= 2
    /\ Len(last_call.calls) = 1
    /\ last_call.calls[1].model = self.err_norm_model

\* C10: with method gaussian, the model compute_anomalies queries was fitted
\* in Gaussian mode, fitted on the query or stored by fit.
C10_GaussianModel ==
    (Computed /\ self.method = "gaussian" /\ last_call.raised = "none") =>
        \A k \in 1..Len(last_call.calls) :
            last_call.calls[k].fn = "anomaly_dates" => last_call.calls[k].model.fit_gauss

\* a raw matrix as a matrix of fractions
AsFractions(data) == [r \in 1..Len(data) |-> [j \in 1..NumCols(data) |-> <<data[r][j], 1>>]]

\* two matrices of fractions have the same shape and equal entries
MatEq(p, q) ==
    /\ Len(p) = Len(q)
    /\ NumCols(p) = NumCols(q)
    /\ \A r \in 1..Len(p) : \A j \in 1..NumCols(p) : RatEq(p[r][j], q[r][j])

\* the matrix a call into the module anomalies was handed, as fractions
Handed(call) == IF call.norm # <<>> THEN call.norm ELSE AsFractions(call.error)

\* C11 as stated: with method threshold_norm every call on the model (fit on
\* the query, anomaly_dates) is handed the min-max normalized absolute value
\* of the filtered error matrix, and anomaly_dates the threshold self.threshold.
C11_HandsNormalized ==
    (Computed /\ self.method = "threshold_norm") =>
        \A k \in 1..Len(last_call.calls) :
            /\ MatEq(Handed(last_call.calls[k]),
                     normalize_error(AbsMatrix(FilteredError(last_call.file))))
            /\ last_call.calls[k].fn = "anomaly_dates" =>
                  last_call.calls[k].args = <<self.threshold>>

\* C11, amended: with method threshold_norm every call on the model is handed
\* the filtered error matrix itself, signed and not normalized, and
\* anomaly_dates the threshold self.threshold.
C11_HandsFiltered ==
    (Computed /\ self.method = "threshold_norm") =>
        /\ Len(last_call.calls) >= 1
        /\ \A k \in 1..Len(last_call.calls) :
              /\ last_call.calls[k].norm = <<>>
              /\ last_call.calls[k].error = FilteredError(last_call.file)
              /\ last_call.calls[k].fn = "anomaly_dates" =>
                    last_call.calls[k].args = <<self.threshold>>

\* threshold_norm fitted on the query and was handed a matrix with a negative entry
C11_Witness ==
    /\ Computed
    /\ self.method = "threshold_norm"
    /\ Len(last_call.calls) = 2
    /\ \E r \in 1..Len(last_call.calls[1].error) :
          \E j \in 1..NumCols(last_call.calls[1].error) : last_call.calls[1].error[r][j] < 0

(***************************************************************************)
(* Properties of the fixed threshold (checked under SpecThr)               *)
(***************************************************************************)
\* C12: for the methods threshold and threshold_norm, on one score trace, the
\* indices flagged at a threshold are among those flagged at any lower
\* threshold, so their number does not grow with the threshold.
C12_MonotoneThreshold ==
    \A r1, r2 \in thr_results :
        (r1.method = r2.method /\ r1.threshold <= r2.threshold) =>
            /\ Range(r2.anomalies) \subseteq Range(r1.anomalies)
            /\ Len(r2.anomalies) <= Len(r1.anomalies)

\* both methods were called with two thresholds, and the higher one flagged
\* fewer time steps, but some
C12_Witness ==
    \A m \in {"threshold", "threshold_norm"} :
        \E r1, r2 \in thr_results :
            /\ r1.method = m /\ r2.method = m
            /\ r1.threshold < r2.threshold
            /\ Len(r2.anomalies) < Len(r1.anomalies)
            /\ Len(r2.anomalies) >= 1

(***************************************************************************)
(* Properties of the aggregator (checked under SpecConcat and SpecLearn)   *)
(***************************************************************************)
\* the listed files that have errors of the model, in the order listed
Contributing(datafiles, model) ==
    SelectSeq(datafiles, LAMBDA f : model \in DOMAIN errors[f])

\* the number of rows the files before the j-th contribute
RECURSIVE RowsBefore(_, _, _)
RowsBefore(files, model, j) ==
    IF j <= 1 THEN 0
    ELSE RowsBefore(files, model, j - 1) + Len(errors[files[j - 1]][model])

C13_Stacked ==
    concat_out.op = "concat_all_datafiles" =>
        \A model \in ModelNames :
            LET files == Contributing(concat_out.datafiles, model)
                result == concat_out.result
            IN IF files = <<>> THEN model \notin DOMAIN result
               ELSE /\ model \in DOMAIN result
                    /\ Len(result[model]) = RowsBefore(files, model, Len(files) + 1)
                    /\ \A j \in 1..Len(files) :
                          \A r \in 1..Len(errors[files[j]][model]) :
                              result[model][RowsBefore(files, model, j) + r]
                                  = errors[files[j]][model][r]

\* C13: concat_all_datafiles returns, for each model, the rows of the listed
\* files that have the model, stacked in the order listed, rows in file order,
\* a file listed twice contributing twice, so that the row count is the sum of
\* the contributions; and the table of errors is never changed.
C13_ConcatStacks == []C13_Stacked /\ [][errors' = errors]_vars

\* two files were listed, one of them twice, and a model has rows of all three
C13_Witness ==
    /\ concat_out.op = "concat_all_datafiles"
    /\ Len(concat_out.datafiles) = 3
    /\ concat_out.datafiles[1] = concat_out.datafiles[3]
    /\ concat_out.datafiles[1] # concat_out.datafiles[2]
    /\ \E model \in DOMAIN concat_out.result :
          /\ Len(Contributing(concat_out.datafiles, model)) = 3
          /\ Len(concat_out.result[model]) = 2 * RowsOf(concat_out.datafiles[1])
                                             + RowsOf(concat_out.datafiles[2])

\* learn_anomalies has just fitted on the files [A,B], right after it fitted
\* the same model's errors on [B,A]
LearnedReversed ==
    /\ learn_call.op = "learn_anomalies"
    /\ learn_call.raised = "none"
    /\ Len(learn_call.datafiles) = 2
    /\ learn_call.prev # <<>>
    /\ learn_call.prev[1].raised = "none"
    /\ learn_call.prev[1].model = learn_call.model
    /\ learn_call.prev[1].datafiles = <<learn_call.datafiles[2], learn_call.datafiles[1]>>

StatsEq(s, t) ==
    /\ Len(s) = Len(t)
    /\ \A j \in 1..Len(s) : RatEq(s[j].mean, t[j].mean) /\ RatEq(s[j].var, t[j].var)

\* C14 (as stated): fitting on the files [A,B] gives the same per-feature mean
\* and standard deviation as fitting on [B,A], for every smoothing window.
C14_OrderInsensitive ==
    [][LearnedReversed' =>
          StatsEq(FittedStats(self'.err_norm_model), FittedStats(self.err_norm_model))]_vars

\* C14 (amended): fitting on the files [A,B] gives the same per-feature mean
\* and standard deviation as fitting on [B,A] when the smoothing window is 1
\* (smooth_factor = 0).
C14_OrderInsensitiveUnsmoothed ==
    [][(LearnedReversed' /\ self.smooth_factor = 0) =>
          StatsEq(FittedStats(self'.err_norm_model), FittedStats(self.err_norm_model))]_vars

\* two different files were fitted on in both orders, without smoothing
C14_Witness ==
    /\ LearnedReversed
    /\ self.smooth_factor = 0
    /\ learn_call.datafiles[1] # learn_call.datafiles[2]
    /\ self.err_norm_model.fit_error
           = errors[learn_call.datafiles[1]][learn_call.model]
             \o errors[learn_call.datafiles[2]][learn_call.model]

(***************************************************************************)
(* Properties of what compute_anomalies returns and selects (under Spec)   *)
(***************************************************************************)
\* C15 (as stated): compute_anomalies returns a null score_signal for the
\* methods votes and threshold, and a non-null one for the other methods.
C15_NullSignalForVotesThreshold ==
    (Computed /\ last_call.raised = "none") =>
        (last_call.ret.ano_signal = "None" <=> self.method \in {"votes", "threshold"})

\* C15 (amended): every method branch of compute_anomalies assigns
\* score_signal, so the initial null is never returned for it; peak_indices
\* is what stays null, for the methods votes and threshold and only for them.
C15_SignalAssigned ==
    (Computed /\ last_call.raised = "none") =>
        /\ last_call.ret.ano_signal # "None"
        /\ last_call.ret.ano_peaks = "None" <=> self.method \in {"votes", "threshold"}

\* compute_anomalies returned from the threshold branch
C15_Witness ==
    /\ Computed
    /\ last_call.raised = "none"
    /\ self.method = "threshold"
    /\ last_call.ret.anomalies = "np.where"
    /\ last_call.ret.ano_peaks = "None"

\* C16: an AnomalyParameters constructed with peak width w passes w as
\* peak_width to the peak extraction of the method peaks.
C16_PeakWidthPassed ==
    (Computed /\ self.method = "peaks") =>
        /\ last_call.calls[1].fn = "anomaly_dates_peaks"
        /\ last_call.calls[1].args[2] = init_args.peaks_width

\* the 0-based positions i of labels with labels[i] not in ignore, ascending
Positions(labels, ignore) ==
    SelectSeq([i \in 1..Len(labels) |-> i - 1],
              LAMBDA i : labels[i + 1] \notin Range(ignore))

\* C17: fit and compute_anomalies select the columns at the positions i of
\* labels with labels[i] not in ignore, ascending, each once, also when labels
\* has repeated names: the matrix they hand on is made of these columns.
C17_ColumnPositions ==
    (last_call.op \in {"fit", "compute_anomalies"} /\ last_call.raised = "none") =>
        LET expected == Filter(ErrorOf(last_call.file, Len(self.labels)),
                               Positions(self.labels, self.ignore))
            call == last_call.calls[1]
        IN IF call.norm # <<>>
           THEN call.norm = normalize_error(AbsMatrix(expected))
           ELSE call.error = expected

(***************************************************************************)
(* Properties of TimeseriesPlot objects (checked under SpecPlots)          *)
(***************************************************************************)
\* C18: after any sequence of constructions, every TimeseriesPlot p has
\* p.anomaly_params.labels equal to p.target_cols.
C18_LabelsAreTargetCols ==
    \A i \in 1..Len(plots) :
        heap[plots[i].anomaly_params].labels = plots[i].target_cols

====
